---- MODULE Spec2Model ----
(***************************************************************************)
(* Model of the truck load planner's optimisation core                     *)
(* (app/services/optimizer.py) together with the request and response      *)
(* models it consumes and produces.                                        *)
(*                                                                         *)
(* Dates are integers (days), so that <= on dates is <= on integers.       *)
(* Utilisation percentages, which the code rounds to 2 decimals, are kept  *)
(* as an integer number of hundredths of a percent (10000 = 100.00 %).     *)
(***************************************************************************)
EXTENDS Integers, Sequences, FiniteSets, TLC

(* ------------------------------ bounds -------------------------------- *)

MaxOrders == 3

WideOrders == 2

MaxPayout == 2

MaxWeight == 2

MaxVolume == 2

MaxCapWeight == 2

MaxCapVolume == 2

MaxDate == 2

MaxCalls == 2
MaxGroupOrders == 4
MaxExtraOrders == 1

(* ------------------------------ state --------------------------------- *)

VARIABLES
    request,      \* the validated request being served
    optimizer,    \* the OptimizerService built for it: <<service>>, or <<>>
    returned,     \* the outcomes of the calls made so far, oldest first
    group_list,   \* <<the list _group_compatible_orders returned>>, or <<>>
    http_status,  \* the status the route answered with, 0 before it answers
    dp_truck,     \* _bitmask_dp: the truck of the service (self.truck)
    dp_orders,    \* _bitmask_dp: its argument, a filtered group
    dp_pc,        \* _bitmask_dp: "idle", "loop" (in the for loop) or "done"
    dp_mask,      \* _bitmask_dp: the next mask of the loop
    dp_best,      \* _bitmask_dp: best_payout, best_mask, best_weight, best_volume
    dp_evaluated, \* _bitmask_dp: the masks evaluated so far, in order
    dp_result     \* _bitmask_dp: what it returned

vars ==
    <<request, optimizer, returned, group_list, http_status,
      dp_truck, dp_orders, dp_pc, dp_mask, dp_best, dp_evaluated, dp_result>>

service_vars == <<request, optimizer, returned, group_list, http_status>>

dp_vars == <<dp_truck, dp_orders, dp_pc, dp_mask, dp_best, dp_evaluated, dp_result>>

(* ------------------------- request models ----------------------------- *)

TruckIds == {"truck-123"}

\* Truck: max_weight_lbs > 0 and max_volume_cuft > 0 (Field gt=0).
Truck(id, max_weight_lbs, max_volume_cuft) ==
    [id |-> id, max_weight_lbs |-> max_weight_lbs, max_volume_cuft |-> max_volume_cuft]

\* The trucks of the requests with n orders.  A list of more than WideOrders
\* orders comes with a truck whose volume takes the whole list (its orders
\* have unit volume) and whose weight limit may take it too.
TrucksFor(n) ==
    IF n <= WideOrders
    THEN {Truck(id, w, v) : id \in TruckIds, w \in 1..MaxCapWeight, v \in 1..MaxCapVolume}
    ELSE {Truck(id, w, n) : id \in TruckIds, w \in 1..(MaxCapWeight + 1)}

\* The (origin, destination, is_hazmat) of the orders of a request: a base
\* lane and the three that differ from it in exactly one component.
Lanes ==
    {<<"Los Angeles, CA", "Dallas, TX", FALSE>>,
     <<"Chicago, IL", "Dallas, TX", FALSE>>,
     <<"Los Angeles, CA", "Phoenix, AZ", FALSE>>,
     <<"Los Angeles, CA", "Dallas, TX", TRUE>>}

NarrowLanes ==
    {<<"Los Angeles, CA", "Dallas, TX", FALSE>>,
     <<"Chicago, IL", "Dallas, TX", FALSE>>}

\* The fields of an Order but its id: payout_cents >= 0, weight_lbs > 0,
\* volume_cuft > 0, and delivery_date >= pickup_date
\* (validate_delivery_after_pickup).
OrderFields ==
    {o \in [payout_cents : 0..MaxPayout,
            weight_lbs : 1..MaxWeight,
            volume_cuft : 1..MaxVolume,
            lane : Lanes,
            pickup_date : 1..MaxDate,
            delivery_date : 1..MaxDate] :
        o.delivery_date >= o.pickup_date}

\* The orders that the longer lists are made of: two lanes, unit volume
\* and a positive payout.
NarrowOrderFields ==
    {o \in OrderFields :
        /\ o.lane \in NarrowLanes
        /\ o.volume_cuft = 1
        /\ o.payout_cents >= 1}

Order(id, o) ==
    [id |-> id,
     payout_cents |-> o.payout_cents,
     weight_lbs |-> o.weight_lbs,
     volume_cuft |-> o.volume_cuft,
     origin |-> o.lane[1],
     destination |-> o.lane[2],
     pickup_date |-> o.pickup_date,
     delivery_date |-> o.delivery_date,
     is_hazmat |-> o.lane[3]]

\* The fields of the orders of a list of n orders: lists of up to WideOrders
\* orders range over all the order fields, longer ones over the narrow ones.
FieldsFor(n) == IF n <= WideOrders THEN OrderFields ELSE NarrowOrderFields

\* The list of orders with fields f[1], ..., f[n]; the i-th order carries
\* id i, so that ids are unique (validate_orders_not_empty_ids).
OrderList(n, f) == [i \in 1..n |-> Order(i, f[i])]

\* OptimizeRequest
OptimizeRequest(truck, orders) == [truck |-> truck, orders |-> orders]

(* ---------------------------- optimizer ------------------------------- *)

\* 2^k
RECURSIVE Pow2(_)
Pow2(k) == IF k = 0 THEN 1 ELSE 2 * Pow2(k - 1)

\* mask & (1 << i) is non-zero; i counts from 0.
BitSet(mask, i) == (mask \div Pow2(i)) % 2 = 1

RECURSIVE SumSeq(_)
SumSeq(s) == IF s = <<>> THEN 0 ELSE Head(s) + SumSeq(Tail(s))

MaxOf(S) == CHOOSE x \in S : \A y \in S : y <= x

MinOf(S) == CHOOSE x \in S : \A y \in S : x <= y

\* Mutant: the key repeats the origin where the destination belongs.
GroupKey_origin_twice(order) == <<order.origin, order.origin, order.is_hazmat>>

\* key = (order.origin, order.destination, order.is_hazmat)
GroupKey(order) == <<order.origin, order.destination, order.is_hazmat>>

\* Mutant: an order joins the group made last when it has its key, and
\* starts a group otherwise, as grouping runs of neighbours would.
DictAppend_adjacent(groups, key, order) ==
    IF groups # <<>> /\ groups[Len(groups)].key = key
    THEN [groups EXCEPT ![Len(groups)].orders = Append(@, order)]
    ELSE Append(groups, [key |-> key, orders |-> <<order>>])

\* Mutant: groups[key] = [order], which keeps the last order of a key only.
DictAppend_overwrite(groups, key, order) ==
    IF \E j \in 1..Len(groups) : groups[j].key = key
    THEN [j \in 1..Len(groups) |->
            IF groups[j].key = key
            THEN [groups[j] EXCEPT !.orders = <<order>>]
            ELSE groups[j]]
    ELSE Append(groups, [key |-> key, orders |-> <<order>>])

\* groups[key].append(order) on a defaultdict(list): a dict keeps its keys
\* in insertion order, so it is a sequence of (key, orders) entries.
DictAppend(groups, key, order) ==
    IF \E j \in 1..Len(groups) : groups[j].key = key
    THEN [j \in 1..Len(groups) |->
            IF groups[j].key = key
            THEN [groups[j] EXCEPT !.orders = Append(@, order)]
            ELSE groups[j]]
    ELSE Append(groups, [key |-> key, orders |-> <<order>>])

RECURSIVE GroupLoop(_, _, _)
GroupLoop(orders, i, groups) ==
    IF i > Len(orders) THEN groups
    ELSE GroupLoop(orders, i + 1, DictAppend(groups, GroupKey(orders[i]), orders[i]))

group_compatible_orders(orders) ==
    LET d == GroupLoop(orders, 1, <<>>)
    IN  [j \in 1..Len(d) |->
            [orders |-> d[j].orders,
             is_hazmat |-> d[j].key[3],
             origin |-> d[j].key[1],
             destination |-> d[j].key[2]]]

\* Mutant: an order that takes the whole of a capacity is filtered out.
filter_feasible_orders_strict(truck, orders) ==
    LET fits(order) == /\ order.weight_lbs < truck.max_weight_lbs
                       /\ order.volume_cuft < truck.max_volume_cuft
    IN  SelectSeq(orders, fits)

filter_feasible_orders(truck, orders) ==
    LET fits(order) == /\ order.weight_lbs <= truck.max_weight_lbs
                       /\ order.volume_cuft <= truck.max_volume_cuft
    IN  SelectSeq(orders, fits)

\* Mutant: min and max exchanged.
check_time_window_compatibility_swapped(orders) ==
    IF Len(orders) <= 1 THEN TRUE
    ELSE LET min_pickup == MinOf({orders[i].pickup_date : i \in 1..Len(orders)})
             max_delivery == MaxOf({orders[i].delivery_date : i \in 1..Len(orders)})
         IN  min_pickup <= max_delivery

check_time_window_compatibility(orders) ==
    IF Len(orders) <= 1 THEN TRUE
    ELSE LET max_pickup == MaxOf({orders[i].pickup_date : i \in 1..Len(orders)})
             min_delivery == MinOf({orders[i].delivery_date : i \in 1..Len(orders)})
         IN  max_pickup <= min_delivery

\* [orders[i] for i in range(n) if mask & (1 << i)]
RECURSIVE MaskOrders(_, _, _)
MaskOrders(orders, mask, i) ==
    IF i >= Len(orders) THEN <<>>
    ELSE IF BitSet(mask, i)
         THEN <<orders[i + 1]>> \o MaskOrders(orders, mask, i + 1)
         ELSE MaskOrders(orders, mask, i + 1)

\* Mutant: "and" where the code has "or".
ExceedsCapacity_and(truck, total_weight, total_volume) ==
    /\ total_weight > truck.max_weight_lbs
    /\ total_volume > truck.max_volume_cuft

\* Mutant: the capacity test looks at the weight alone.
ExceedsCapacity_weight_only(truck, total_weight, total_volume) ==
    total_weight > truck.max_weight_lbs

\* Mutant: the capacity test looks at the volume alone.
ExceedsCapacity_volume_only(truck, total_weight, total_volume) ==
    total_volume > truck.max_volume_cuft

\* The capacity test of the subset search.
ExceedsCapacity(truck, total_weight, total_volume) ==
    \/ total_weight > truck.max_weight_lbs
    \/ total_volume > truck.max_volume_cuft

\* Mutant: a subset that pays as much as the best replaces it.
IsBetter_or_equal(total_payout, best_payout) == total_payout >= best_payout

\* The update test of the subset search.
IsBetter(total_payout, best_payout) == total_payout > best_payout

\* The initial values of best_payout, best_mask, best_weight, best_volume.
NoBest == [best_payout |-> 0, best_mask |-> 0, best_weight |-> 0, best_volume |-> 0]

\* What _bitmask_dp returns for no orders.
NoResult == [selected_orders |-> <<>>, payout |-> 0, weight |-> 0, volume |-> 0]

\* One iteration of "for mask in range(1, 1 << n)".
MaskStep(truck, orders, best, mask) ==
    LET selected == MaskOrders(orders, mask, 0)
        total_weight == SumSeq([k \in 1..Len(selected) |-> selected[k].weight_lbs])
        total_volume == SumSeq([k \in 1..Len(selected) |-> selected[k].volume_cuft])
        total_payout == SumSeq([k \in 1..Len(selected) |-> selected[k].payout_cents])
    IN  IF ExceedsCapacity(truck, total_weight, total_volume) THEN best
        ELSE IF ~check_time_window_compatibility(selected) THEN best
        ELSE IF IsBetter(total_payout, best.best_payout)
             THEN [best_payout |-> total_payout,
                   best_mask |-> mask,
                   best_weight |-> total_weight,
                   best_volume |-> total_volume]
             ELSE best

\* Mutant: range(1, (1 << n) - 1), which leaves the full mask out.
RECURSIVE MaskLoop_short(_, _, _, _)
MaskLoop_short(truck, orders, best, mask) ==
    IF mask >= Pow2(Len(orders)) - 1 THEN best
    ELSE MaskLoop_short(truck, orders, MaskStep(truck, orders, best, mask), mask + 1)

RECURSIVE MaskLoop(_, _, _, _)
MaskLoop(truck, orders, best, mask) ==
    IF mask >= Pow2(Len(orders)) THEN best
    ELSE MaskLoop(truck, orders, MaskStep(truck, orders, best, mask), mask + 1)

\* Mutant: the reconstruction walks the bits from the highest down.
SelectedOrders_reversed(orders, best_mask) ==
    LET up == MaskOrders(orders, best_mask, 0)
    IN  [k \in 1..Len(up) |-> up[Len(up) + 1 - k]]

\* The reconstruction of the selected orders from best_mask.
SelectedOrders(orders, best_mask) == MaskOrders(orders, best_mask, 0)

bitmask_dp(truck, orders) ==
    IF Len(orders) = 0 THEN NoResult
    ELSE LET best == MaskLoop(truck, orders, NoBest, 1)
         IN  [selected_orders |-> SelectedOrders(orders, best.best_mask),
              payout |-> best.best_payout,
              weight |-> best.best_weight,
              volume |-> best.best_volume]

\* Mutant: best_payout starts below every payout.
NoSolution_minus1 ==
    [best_payout |-> -1, best_orders |-> <<>>, best_weight |-> 0, best_volume |-> 0,
     calls |-> <<>>]

\* Mutant: best_payout outlives the call, as a module-level variable would.
NoSolution_stale ==
    [best_payout |-> IF returned = <<>> THEN 0
                     ELSE returned[Len(returned)].response.total_payout_cents,
     best_orders |-> <<>>, best_weight |-> 0, best_volume |-> 0,
     calls |-> <<>>]

\* The initial values of _find_best_solution's best_payout, best_orders,
\* best_weight and best_volume; calls lists the helpers it has called.
NoSolution ==
    [best_payout |-> 0, best_orders |-> <<>>, best_weight |-> 0, best_volume |-> 0,
     calls |-> <<>>]

\* Mutant: the positions selected in the filtered list are read from the
\* unfiltered one.
GroupStep_unfiltered(truck, best, group) ==
    LET feasible_orders == filter_feasible_orders(truck, group.orders)
        filtered == [best EXCEPT !.calls = Append(@, "_filter_feasible_orders")]
    IN  IF Len(feasible_orders) = 0 THEN filtered
        ELSE LET b == MaskLoop(truck, feasible_orders, NoBest, 1)
                 searched == [filtered EXCEPT !.calls = Append(@, "_bitmask_dp")]
             IN  IF b.best_payout > best.best_payout
                 THEN [best_payout |-> b.best_payout,
                       best_orders |-> SelectedOrders(group.orders, b.best_mask),
                       best_weight |-> b.best_weight,
                       best_volume |-> b.best_volume,
                       calls |-> searched.calls]
                 ELSE searched

\* Mutant: a better group replaces best_payout and best_orders and leaves
\* best_weight as it was.
GroupStep_stale_weight(truck, best, group) ==
    LET feasible_orders == filter_feasible_orders(truck, group.orders)
        filtered == [best EXCEPT !.calls = Append(@, "_filter_feasible_orders")]
    IN  IF Len(feasible_orders) = 0 THEN filtered
        ELSE LET b == MaskLoop(truck, feasible_orders, NoBest, 1)
                 searched == [filtered EXCEPT !.calls = Append(@, "_bitmask_dp")]
             IN  IF b.best_payout > best.best_payout
                 THEN [best_payout |-> b.best_payout,
                       best_orders |-> SelectedOrders(feasible_orders, b.best_mask),
                       best_weight |-> best.best_weight,
                       best_volume |-> b.best_volume,
                       calls |-> searched.calls]
                 ELSE searched

\* Mutant: a group that pays as much as the best so far replaces it.
GroupStep_or_equal(truck, best, group) ==
    LET feasible_orders == filter_feasible_orders(truck, group.orders)
        filtered == [best EXCEPT !.calls = Append(@, "_filter_feasible_orders")]
    IN  IF Len(feasible_orders) = 0 THEN filtered
        ELSE LET b == MaskLoop(truck, feasible_orders, NoBest, 1)
                 searched == [filtered EXCEPT !.calls = Append(@, "_bitmask_dp")]
             IN  IF b.best_payout >= best.best_payout
                 THEN [best_payout |-> b.best_payout,
                       best_orders |-> SelectedOrders(feasible_orders, b.best_mask),
                       best_weight |-> b.best_weight,
                       best_volume |-> b.best_volume,
                       calls |-> searched.calls]
                 ELSE searched

\* One iteration of "for group in order_groups".
GroupStep(truck, best, group) ==
    LET feasible_orders == filter_feasible_orders(truck, group.orders)
        filtered == [best EXCEPT !.calls = Append(@, "_filter_feasible_orders")]
    IN  IF Len(feasible_orders) = 0 THEN filtered
        ELSE LET r == bitmask_dp(truck, feasible_orders)
                 searched == [filtered EXCEPT !.calls = Append(@, "_bitmask_dp")]
             IN  IF r.payout > best.best_payout
                 THEN [best_payout |-> r.payout,
                       best_orders |-> r.selected_orders,
                       best_weight |-> r.weight,
                       best_volume |-> r.volume,
                       calls |-> searched.calls]
                 ELSE searched

\* Mutant: the loop over the groups breaks at the first group that pays.
RECURSIVE GroupsLoop_breaks(_, _, _, _)
GroupsLoop_breaks(truck, order_groups, best, g) ==
    IF g > Len(order_groups) \/ best.best_payout > 0 THEN best
    ELSE GroupsLoop_breaks(truck, order_groups,
                           GroupStep(truck, best, order_groups[g]), g + 1)

RECURSIVE GroupsLoop(_, _, _, _)
GroupsLoop(truck, order_groups, best, g) ==
    IF g > Len(order_groups) THEN best
    ELSE GroupsLoop(truck, order_groups, GroupStep(truck, best, order_groups[g]), g + 1)

\* Mutant: the quotient is cut after two decimals, not rounded.
Round2_floor(total, capacity) == (total * 10000) \div capacity

\* round(total / capacity * 100, 2) in hundredths of a percent: the nearest
\* integer to total * 10000 / capacity, a tie going to the even one (Python's
\* round).  The quotient is taken exactly; the code takes it in binary
\* floating point.
Round2(total, capacity) ==
    LET num == total * 10000
        q == num \div capacity
        r == num % capacity
    IN  IF 2 * r > capacity THEN q + 1
        ELSE IF 2 * r < capacity THEN q
        ELSE IF q % 2 = 0 THEN q ELSE q + 1

\* Mutant: the positions in the selection where the ids belong.
create_response_positions(truck, selected_orders, total_payout, total_weight, total_volume) ==
    LET weight_util == IF total_weight > 0 THEN Round2(total_weight, truck.max_weight_lbs) ELSE 0
        volume_util == IF total_volume > 0 THEN Round2(total_volume, truck.max_volume_cuft) ELSE 0
    IN  [truck_id |-> truck.id,
         selected_order_ids |-> [k \in 1..Len(selected_orders) |-> k - 1],
         total_payout_cents |-> total_payout,
         total_weight_lbs |-> total_weight,
         total_volume_cuft |-> total_volume,
         utilization_weight_percent |-> weight_util,
         utilization_volume_percent |-> volume_util]

\* Mutant: each utilisation is taken against the other capacity.
create_response_swapped_capacity(truck, selected_orders, total_payout, total_weight, total_volume) ==
    LET weight_util == IF total_weight > 0 THEN Round2(total_weight, truck.max_volume_cuft) ELSE 0
        volume_util == IF total_volume > 0 THEN Round2(total_volume, truck.max_weight_lbs) ELSE 0
    IN  [truck_id |-> truck.id,
         selected_order_ids |-> [k \in 1..Len(selected_orders) |-> selected_orders[k].id],
         total_payout_cents |-> total_payout,
         total_weight_lbs |-> total_weight,
         total_volume_cuft |-> total_volume,
         utilization_weight_percent |-> weight_util,
         utilization_volume_percent |-> volume_util]

create_response(truck, selected_orders, total_payout, total_weight, total_volume) ==
    LET weight_util == IF total_weight > 0 THEN Round2(total_weight, truck.max_weight_lbs) ELSE 0
        volume_util == IF total_volume > 0 THEN Round2(total_volume, truck.max_volume_cuft) ELSE 0
    IN  [truck_id |-> truck.id,
         selected_order_ids |-> [k \in 1..Len(selected_orders) |-> selected_orders[k].id],
         total_payout_cents |-> total_payout,
         total_weight_lbs |-> total_weight,
         total_volume_cuft |-> total_volume,
         utilization_weight_percent |-> weight_util,
         utilization_volume_percent |-> volume_util]

\* The field constraints of OptimizeResponse (ge=0, le=100.0): building a
\* response that breaks one raises a validation error.
OptimizeResponseValid(r) ==
    /\ r.total_payout_cents >= 0
    /\ r.total_weight_lbs >= 0
    /\ r.total_volume_cuft >= 0
    /\ r.utilization_weight_percent >= 0
    /\ r.utilization_weight_percent <= 10000
    /\ r.utilization_volume_percent >= 0
    /\ r.utilization_volume_percent <= 10000

\* What a call hands back: the response, or the validation error raised
\* while building it, and the helpers called on the way.
Outcome(r, calls) ==
    [status |-> IF OptimizeResponseValid(r) THEN "returned" ELSE "raised",
     response |-> r,
     calls |-> calls]

find_best_solution(truck, order_groups) ==
    LET best == GroupsLoop(truck, order_groups, NoSolution, 1)
    IN  Outcome(create_response(truck, best.best_orders, best.best_payout,
                                best.best_weight, best.best_volume),
                Append(best.calls, "_create_response"))

\* Mutant: no short cut for an empty order list.
optimize_no_short_cut(service) ==
    LET order_groups == group_compatible_orders(service.orders)
        best_solution == find_best_solution(service.truck, order_groups)
    IN  [best_solution EXCEPT
           !.calls = <<"_group_compatible_orders", "_find_best_solution">> \o @]

\* OptimizerService.optimize on a service holding (truck, orders).
optimize(service) ==
    IF Len(service.orders) = 0
    THEN Outcome(create_response(service.truck, <<>>, 0, 0, 0), <<"_create_response">>)
    ELSE LET order_groups == group_compatible_orders(service.orders)
             best_solution == find_best_solution(service.truck, order_groups)
         IN  [best_solution EXCEPT
                !.calls = <<"_group_compatible_orders", "_find_best_solution">> \o @]

\* OptimizerService.__init__
OptimizerService(req) == [truck |-> req.truck, orders |-> req.orders]

optimize_load(req) == optimize(OptimizerService(req))

(* ---------------------- the service's calls --------------------------- *)

NoTruck == [id |-> "", max_weight_lbs |-> 0, max_volume_cuft |-> 0]

DpIdle ==
    /\ dp_truck = NoTruck
    /\ dp_orders = <<>>
    /\ dp_pc = "idle"
    /\ dp_mask = 0
    /\ dp_best = NoBest
    /\ dp_evaluated = <<>>
    /\ dp_result = NoResult

Init ==
    /\ \E n \in 0..MaxOrders :
         \E truck \in TrucksFor(n), f \in [1..n -> FieldsFor(n)] :
            request = OptimizeRequest(truck, OrderList(n, f))
    /\ optimizer = <<>>
    /\ returned = <<>>
    /\ group_list = <<>>
    /\ http_status = 0
    /\ DpIdle

\* optimizer = OptimizerService(request)
Construct ==
    /\ optimizer = <<>>
    /\ optimizer' = <<OptimizerService(request)>>
    /\ UNCHANGED <<request, returned, group_list, http_status>>
    /\ UNCHANGED dp_vars

\* Mutant: the call takes the orders off the service's own list to group
\* them, and leaves the list empty.
Optimize_drains ==
    /\ optimizer # <<>>
    /\ Len(returned) < MaxCalls
    /\ returned' = Append(returned, optimize(optimizer[1]))
    /\ optimizer' = <<[optimizer[1] EXCEPT !.orders = <<>>]>>
    /\ UNCHANGED <<request, group_list, http_status>>
    /\ UNCHANGED dp_vars

\* optimizer.optimize()
Optimize ==
    /\ optimizer # <<>>
    /\ Len(returned) < MaxCalls
    /\ returned' = Append(returned, optimize(optimizer[1]))
    /\ UNCHANGED <<request, optimizer, group_list, http_status>>
    /\ UNCHANGED dp_vars

\* optimize_load(request): a service of its own, dropped on return.
OptimizeLoad ==
    /\ Len(returned) < MaxCalls
    /\ returned' = Append(returned, optimize_load(request))
    /\ UNCHANGED <<request, optimizer, group_list, http_status>>
    /\ UNCHANGED dp_vars

Next == Construct \/ Optimize \/ OptimizeLoad

Spec == Init /\ [][Next]_vars

(* --------------------- the grouping, called alone --------------------- *)

\* The orders of the requests the grouping is called on: every key, two
\* weights, and one value for each field the grouping does not read.
GroupOrderFields ==
    {o \in OrderFields :
        /\ o.payout_cents = 1
        /\ o.volume_cuft = 1
        /\ o.pickup_date = 1
        /\ o.delivery_date = 1}

GroupInit ==
    /\ \E n \in 0..MaxGroupOrders :
         \E id \in TruckIds, f \in [1..n -> GroupOrderFields] :
            request = OptimizeRequest(Truck(id, MaxCapWeight, MaxCapVolume),
                                      OrderList(n, f))
    /\ optimizer = <<>>
    /\ returned = <<>>
    /\ group_list = <<>>
    /\ http_status = 0
    /\ DpIdle

\* groups = optimizer._group_compatible_orders()
GroupOrders ==
    /\ optimizer # <<>>
    /\ group_list = <<>>
    /\ group_list' = <<group_compatible_orders(optimizer[1].orders)>>
    /\ UNCHANGED <<request, optimizer, returned, http_status>>
    /\ UNCHANGED dp_vars

GroupNext == Construct \/ GroupOrders

GroupSpec == GroupInit /\ [][GroupNext]_vars

(* ------------------ the route POST /load-optimizer/optimize ----------- *)

\* settings.max_orders_per_request, at its default.
max_orders_per_request == 25

\* Mutant: a request of exactly the limit is turned away too.
TooManyOrders_or_equal(req) == Len(req.orders) >= max_orders_per_request

\* len(request.orders) > settings.max_orders_per_request
TooManyOrders(req) == Len(req.orders) > max_orders_per_request

\* The origins and destinations of the orders of a long request.  Its keys
\* come round in turn, so that no group grows beyond a ninth of the list.
RouteOrigins == <<"Los Angeles, CA", "Chicago, IL", "Houston, TX">>

RouteDestinations == <<"Dallas, TX", "Phoenix, AZ", "Denver, CO">>

RouteLane(i) ==
    <<RouteOrigins[((i - 1) % Len(RouteOrigins)) + 1],
      RouteDestinations[(((i - 1) \div Len(RouteOrigins)) % Len(RouteDestinations)) + 1],
      FALSE>>

\* The requests sent to the route: from none to a few more orders than the
\* limit, all of one payout and one weight.
RouteInit ==
    /\ \E n \in 0..(max_orders_per_request + MaxExtraOrders) :
         \E truck \in TrucksFor(0), p \in 0..MaxPayout, w \in 1..MaxWeight :
            request = OptimizeRequest(truck,
                [i \in 1..n |->
                    Order(i, [payout_cents |-> p,
                              weight_lbs |-> w,
                              volume_cuft |-> 1,
                              lane |-> RouteLane(i),
                              pickup_date |-> 1,
                              delivery_date |-> 1])])
    /\ optimizer = <<>>
    /\ returned = <<>>
    /\ group_list = <<>>
    /\ http_status = 0
    /\ DpIdle

\* The handler of the route, and the status the application answers with:
\* 413 for the HTTPException, 200 for a result, 500 for any other exception.
RouteOptimize ==
    /\ http_status = 0
    /\ IF TooManyOrders(request)
       THEN /\ http_status' = 413
            /\ UNCHANGED returned
       ELSE LET result == optimize_load(request)
            IN  /\ returned' = Append(returned, result)
                /\ http_status' = IF result.status = "returned" THEN 200 ELSE 500
    /\ UNCHANGED <<request, optimizer, group_list>>
    /\ UNCHANGED dp_vars

RouteNext == RouteOptimize

RouteSpec == RouteInit /\ [][RouteNext]_vars

(* ------------- a request, and the same request with one more --------- *)

\* A request of up to WideOrders orders, for a truck whose volume takes
\* MaxOrders orders of unit volume.
LongerInit ==
    /\ \E n \in 0..WideOrders :
         \E truck \in TrucksFor(MaxOrders), f \in [1..n -> NarrowOrderFields] :
            request = OptimizeRequest(truck, OrderList(n, f))
    /\ optimizer = <<>>
    /\ returned = <<>>
    /\ group_list = <<>>
    /\ http_status = 0
    /\ DpIdle

\* optimizer.optimize(), the first call: the service holds the request as
\* it was when the service was built.
OptimizeBuilt ==
    /\ returned = <<>>
    /\ Optimize

\* The client sends the request again with one more order at the end,
\* under an id no order of the request has.
SendLonger ==
    /\ optimizer # <<>>
    /\ request.orders = optimizer[1].orders
    /\ \E o \in OrderFields :
          request' = OptimizeRequest(request.truck,
                        Append(request.orders, Order(Len(request.orders) + 1, o)))
    /\ UNCHANGED <<optimizer, returned, group_list, http_status>>
    /\ UNCHANGED dp_vars

\* optimize_load(request), the second call, on the request sent after the
\* service was built.
OptimizeResent ==
    /\ Len(returned) = 1
    /\ request.orders # optimizer[1].orders
    /\ OptimizeLoad

LongerNext == Construct \/ OptimizeBuilt \/ SendLonger \/ OptimizeResent

LongerSpec == LongerInit /\ [][LongerNext]_vars

(* ------------ a request, and the same orders in another order -------- *)

\* The ways to put a list of n orders in another order.
Reorderings(n) ==
    {p \in [1..n -> 1..n] :
        /\ \A i, j \in 1..n : p[i] = p[j] => i = j
        /\ \E i \in 1..n : p[i] # i}

\* A request of two orders or more.
ReorderInit ==
    /\ \E n \in 2..MaxOrders :
         \E truck \in TrucksFor(n), f \in [1..n -> FieldsFor(n)] :
            request = OptimizeRequest(truck, OrderList(n, f))
    /\ optimizer = <<>>
    /\ returned = <<>>
    /\ group_list = <<>>
    /\ http_status = 0
    /\ DpIdle

\* The client sends the request again with its orders, ids and all, in
\* another order.
SendReordered ==
    /\ optimizer # <<>>
    /\ request.orders = optimizer[1].orders
    /\ \E p \in Reorderings(Len(request.orders)) :
          request' = OptimizeRequest(request.truck,
                        [i \in 1..Len(request.orders) |-> request.orders[p[i]]])
    /\ UNCHANGED <<optimizer, returned, group_list, http_status>>
    /\ UNCHANGED dp_vars

ReorderNext == Construct \/ OptimizeBuilt \/ SendReordered \/ OptimizeResent

ReorderSpec == ReorderInit /\ [][ReorderNext]_vars

(* ---------------- the subset search, one mask at a time --------------- *)

BaseLane == <<"Los Angeles, CA", "Dallas, TX", FALSE>>

\* The service is entering _bitmask_dp for the one group of a single-lane
\* request: the loop variables hold their initial values.
SearchInit ==
    /\ \E n \in 1..MaxOrders :
         \E truck \in TrucksFor(n),
            f \in [1..n -> {o \in FieldsFor(n) : o.lane = BaseLane}] :
            /\ request = OptimizeRequest(truck, OrderList(n, f))
            /\ dp_truck = truck
            /\ dp_orders =
                 filter_feasible_orders(truck,
                     group_compatible_orders(OrderList(n, f))[1].orders)
    /\ dp_orders # <<>>
    /\ optimizer = <<OptimizerService(request)>>
    /\ returned = <<>>
    /\ group_list = <<>>
    /\ http_status = 0
    /\ dp_pc = "loop"
    /\ dp_mask = 1
    /\ dp_best = NoBest
    /\ dp_evaluated = <<>>
    /\ dp_result = NoResult

\* Mutant: the loop steps by two, as range(1, 1 << n, 2) would.
EvaluateMask_step_two ==
    /\ dp_pc = "loop"
    /\ dp_mask < Pow2(Len(dp_orders))
    /\ dp_best' = MaskStep(dp_truck, dp_orders, dp_best, dp_mask)
    /\ dp_evaluated' = Append(dp_evaluated, dp_mask)
    /\ dp_mask' = dp_mask + 2
    /\ UNCHANGED <<dp_truck, dp_orders, dp_pc, dp_result>>
    /\ UNCHANGED service_vars

\* One iteration of "for mask in range(1, 1 << n)".
EvaluateMask ==
    /\ dp_pc = "loop"
    /\ dp_mask < Pow2(Len(dp_orders))
    /\ dp_best' = MaskStep(dp_truck, dp_orders, dp_best, dp_mask)
    /\ dp_evaluated' = Append(dp_evaluated, dp_mask)
    /\ dp_mask' = dp_mask + 1
    /\ UNCHANGED <<dp_truck, dp_orders, dp_pc, dp_result>>
    /\ UNCHANGED service_vars

\* The loop is over: reconstruct the selected orders and return.
ReturnBest ==
    /\ dp_pc = "loop"
    /\ dp_mask >= Pow2(Len(dp_orders))
    /\ dp_result' = [selected_orders |-> SelectedOrders(dp_orders, dp_best.best_mask),
                     payout |-> dp_best.best_payout,
                     weight |-> dp_best.best_weight,
                     volume |-> dp_best.best_volume]
    /\ dp_pc' = "done"
    /\ UNCHANGED <<dp_truck, dp_orders, dp_mask, dp_best, dp_evaluated>>
    /\ UNCHANGED service_vars

SearchNext == EvaluateMask \/ ReturnBest

SearchSpec == SearchInit /\ [][SearchNext]_vars

\* A for loop over a finite range runs on until the range is exhausted and
\* the function returns: no step that can be taken is put off for ever.
FairSearchSpec == SearchSpec /\ WF_vars(SearchNext)

\* _bitmask_dp is entered with the one group of a single-lane request as
\* _group_compatible_orders made it, nothing filtered out of it, next to
\* the service that optimize() is called on.
UnfilteredSearchInit ==
    /\ \E n \in 1..MaxOrders :
         \E truck \in TrucksFor(n),
            f \in [1..n -> {o \in FieldsFor(n) : o.lane = BaseLane}] :
            /\ request = OptimizeRequest(truck, OrderList(n, f))
            /\ dp_truck = truck
            /\ dp_orders = group_compatible_orders(OrderList(n, f))[1].orders
    /\ optimizer = <<OptimizerService(request)>>
    /\ returned = <<>>
    /\ group_list = <<>>
    /\ http_status = 0
    /\ dp_pc = "loop"
    /\ dp_mask = 1
    /\ dp_best = NoBest
    /\ dp_evaluated = <<>>
    /\ dp_result = NoResult

UnfilteredSearchNext == EvaluateMask \/ ReturnBest \/ Optimize

UnfilteredSearchSpec == UnfilteredSearchInit /\ [][UnfilteredSearchNext]_vars

\* The loop, run a mask at a time, returns what bitmask_dp computes.
SearchAgrees == dp_pc = "done" => dp_result = bitmask_dp(dp_truck, dp_orders)

(* ------------------------- terms of the claims ------------------------ *)

\* The sum of a field over the orders at the positions S of a list.
RECURSIVE SumField(_, _, _)
SumField(orders, S, field) ==
    IF S = {} THEN 0
    ELSE LET i == CHOOSE j \in S : TRUE
         IN  orders[i][field] + SumField(orders, S \ {i}, field)

SameLane(a, b) ==
    /\ a.origin = b.origin
    /\ a.destination = b.destination
    /\ a.is_hazmat = b.is_hazmat

WithinCapacity(truck, orders, S) ==
    /\ SumField(orders, S, "weight_lbs") <= truck.max_weight_lbs
    /\ SumField(orders, S, "volume_cuft") <= truck.max_volume_cuft

TimeCompatible(orders, S) ==
    \A a \in S, b \in S : orders[a].pickup_date <= orders[b].delivery_date

\* S is a set of positions of a non-empty, same-lane, capacity-feasible and
\* time-compatible subset of the orders.
FeasibleSubset(truck, orders, S) ==
    /\ S # {}
    /\ S \subseteq 1..Len(orders)
    /\ \A a \in S, b \in S : SameLane(orders[a], orders[b])
    /\ WithinCapacity(truck, orders, S)
    /\ TimeCompatible(orders, S)

Positions == 1..Len(request.orders)

Calls == 1..Len(returned)

\* The ids selected by the k-th call, as a set, and the positions of the
\* orders of the request that carry them.
SelectedIds(k) ==
    {returned[k].response.selected_order_ids[i] :
        i \in 1..Len(returned[k].response.selected_order_ids)}

SelectedPositions(k) == {p \in Positions : request.orders[p].id \in SelectedIds(k)}

Oversized(order) ==
    \/ order.weight_lbs > request.truck.max_weight_lbs
    \/ order.volume_cuft > request.truck.max_volume_cuft

Payout(S) == SumField(request.orders, S, "payout_cents")

\* The response with nothing selected.
ZeroResponse ==
    [truck_id |-> request.truck.id,
     selected_order_ids |-> <<>>,
     total_payout_cents |-> 0,
     total_weight_lbs |-> 0,
     total_volume_cuft |-> 0,
     utilization_weight_percent |-> 0,
     utilization_volume_percent |-> 0]

(* ------------------------------ claims -------------------------------- *)

\* C1: the total payout of every result is at least the summed payout of
\* every non-empty subset of the request's orders that shares one
\* (origin, destination, is_hazmat), fits the truck's weight and volume and
\* has max(pickup_date) <= min(delivery_date).
GlobalOptimality ==
    \A k \in Calls : \A S \in SUBSET Positions :
        FeasibleSubset(request.truck, request.orders, S)
            => returned[k].response.total_payout_cents >= Payout(S)

\* C1's case: the result is a feasible subset of two orders or more, a
\* feasible subset pays less, and a same-lane subset that pays more is over
\* capacity.
GlobalOptimalityWitness ==
    \E k \in Calls :
        /\ Cardinality(SelectedPositions(k)) >= 2
        /\ FeasibleSubset(request.truck, request.orders, SelectedPositions(k))
        /\ Payout(SelectedPositions(k)) = returned[k].response.total_payout_cents
        /\ \E S \in SUBSET Positions :
              /\ FeasibleSubset(request.truck, request.orders, S)
              /\ 0 < Payout(S)
              /\ Payout(S) < returned[k].response.total_payout_cents
        /\ \E T \in SUBSET Positions :
              /\ \A a \in T, b \in T : SameLane(request.orders[a], request.orders[b])
              /\ ~WithinCapacity(request.truck, request.orders, T)
              /\ Payout(T) > returned[k].response.total_payout_cents

\* C2: every result has total_weight_lbs <= truck.max_weight_lbs and
\* total_volume_cuft <= truck.max_volume_cuft.
CapacityRespected ==
    \A k \in Calls :
        /\ returned[k].response.total_weight_lbs <= request.truck.max_weight_lbs
        /\ returned[k].response.total_volume_cuft <= request.truck.max_volume_cuft

\* C2's case: something is selected, and two same-lane, time-compatible
\* orders that each fit the truck are together over its weight alone.
CapacityRespectedWitness ==
    \E k \in Calls :
        /\ SelectedPositions(k) # {}
        /\ \E a \in Positions, b \in Positions :
              /\ a # b
              /\ ~Oversized(request.orders[a])
              /\ ~Oversized(request.orders[b])
              /\ SameLane(request.orders[a], request.orders[b])
              /\ TimeCompatible(request.orders, {a, b})
              /\ request.orders[a].weight_lbs + request.orders[b].weight_lbs
                    > request.truck.max_weight_lbs
              /\ request.orders[a].volume_cuft + request.orders[b].volume_cuft
                    <= request.truck.max_volume_cuft
              /\ request.orders[a].payout_cents > 0
              /\ request.orders[b].payout_cents > 0

\* C3: any two orders selected by a result have the same origin, the same
\* destination and the same is_hazmat.
SelectionSharesLane ==
    \A k \in Calls : \A a \in SelectedPositions(k), b \in SelectedPositions(k) :
        SameLane(request.orders[a], request.orders[b])

\* C3's case: two orders are selected, and a paying order of another lane
\* that fits the truck and the time window together with one of them is not.
SelectionSharesLaneWitness ==
    \E k \in Calls :
        /\ Cardinality(SelectedPositions(k)) >= 2
        /\ \E a \in SelectedPositions(k), c \in Positions \ SelectedPositions(k) :
              /\ ~SameLane(request.orders[a], request.orders[c])
              /\ request.orders[c].payout_cents > 0
              /\ WithinCapacity(request.truck, request.orders, {a, c})
              /\ TimeCompatible(request.orders, {a, c})

\* C4: in every result with a selection, the latest pickup_date of the
\* selected orders is no later than their earliest delivery_date; so for
\* any two selected orders a and b, a.pickup_date <= b.delivery_date.
SelectionTimeCompatible ==
    \A k \in Calls :
        LET sel == SelectedPositions(k)
        IN  /\ sel # {} =>
                 MaxOf({request.orders[p].pickup_date : p \in sel})
                    <= MinOf({request.orders[p].delivery_date : p \in sel})
            /\ \A a \in sel, b \in sel :
                 request.orders[a].pickup_date <= request.orders[b].delivery_date

\* C4's case: of two paying same-lane orders that fit the truck together,
\* one delivered before the other is picked up, one is selected and the
\* other is not.
SelectionTimeCompatibleWitness ==
    \E k \in Calls :
        \E a \in SelectedPositions(k), b \in Positions \ SelectedPositions(k) :
            /\ SameLane(request.orders[a], request.orders[b])
            /\ WithinCapacity(request.truck, request.orders, {a, b})
            /\ request.orders[b].payout_cents > 0
            /\ \/ request.orders[a].delivery_date < request.orders[b].pickup_date
               \/ request.orders[b].delivery_date < request.orders[a].pickup_date

\* C5: an order heavier than truck.max_weight_lbs or larger than
\* truck.max_volume_cuft is in the selected_order_ids of no result.
OversizedNeverSelected ==
    \A k \in Calls : \A p \in Positions :
        Oversized(request.orders[p]) => request.orders[p].id \notin SelectedIds(k)

\* C5's case: an oversized order pays more than the whole selection, which
\* is not empty, and comes first in its lane.
OversizedNeverSelectedWitness ==
    \E k \in Calls : \E p \in Positions :
        /\ Oversized(request.orders[p])
        /\ SelectedPositions(k) # {}
        /\ request.orders[p].payout_cents > returned[k].response.total_payout_cents
        /\ \E a \in SelectedPositions(k) :
              /\ SameLane(request.orders[a], request.orders[p])
              /\ p < a

\* C6: when the group given to _bitmask_dp has a non-empty subset within
\* the capacity limits and the time-window condition, whatever its payout,
\* the selection returned is not empty.
SearchEmptyOnlyIfInfeasible ==
    dp_pc = "done" =>
        ((\E S \in SUBSET (1..Len(dp_orders)) : FeasibleSubset(dp_truck, dp_orders, S))
            => dp_result.selected_orders # <<>>)

\* C7: when every order of the request is oversized, every call returns,
\* without an error, the response with nothing selected: the truck's id, no
\* ids, totals 0 and utilizations 0.0.
NothingFeasibleIsZeroResponse ==
    (\A p \in Positions : Oversized(request.orders[p])) =>
        \A k \in Calls :
            /\ returned[k].status = "returned"
            /\ returned[k].response = ZeroResponse

\* C7's case: a request of two paying orders or more, all oversized, some
\* by weight and some by volume, has been answered.
NothingFeasibleIsZeroResponseWitness ==
    /\ returned # <<>>
    /\ Cardinality(Positions) >= 2
    /\ \A p \in Positions :
          Oversized(request.orders[p]) /\ request.orders[p].payout_cents > 0
    /\ \E p \in Positions :
          request.orders[p].weight_lbs > request.truck.max_weight_lbs
    /\ \E p \in Positions :
          request.orders[p].volume_cuft > request.truck.max_volume_cuft

\* C8: a request with no orders is answered with the truck's id, no ids,
\* totals 0 and utilizations 0.0, and on the way optimize() calls
\* _create_response only: no grouping, no filtering, no subset search.
EmptyRequestShortCut ==
    request.orders = <<>> =>
        \A k \in Calls :
            returned[k] = [status |-> "returned",
                           response |-> ZeroResponse,
                           calls |-> <<"_create_response">>]

\* C8's case: a service has been constructed for a request with no orders,
\* and the request has been answered MaxCalls times.
EmptyRequestShortCutWitness ==
    /\ request.orders = <<>>
    /\ optimizer # <<>>
    /\ Len(returned) = MaxCalls

SelectedIdsFromRequestOnce ==
    \A k \in Calls :
        LET ids == returned[k].response.selected_order_ids
        IN  /\ \A i \in 1..Len(ids) : \E p \in Positions : request.orders[p].id = ids[i]
            /\ \A i \in 1..Len(ids), j \in 1..Len(ids) : i # j => ids[i] # ids[j]

\* C10's case: a result selects two orders or more, not the first of the
\* request, and not all of them.
SelectedIdsFromRequestOnceWitness ==
    \E k \in Calls :
        /\ Len(returned[k].response.selected_order_ids) >= 2
        /\ 1 \notin SelectedPositions(k)
        /\ \A p, q \in Positions : p # q => request.orders[p].id # request.orders[q].id

\* C11: the totals of every result are the sums over the selected orders:
\* total_payout_cents, total_weight_lbs and total_volume_cuft are the sums of
\* payout_cents, weight_lbs and volume_cuft over the orders of the request
\* whose ids are in selected_order_ids, and all three are 0 when none is.
TotalsAreSums ==
    \A k \in Calls :
        LET r == returned[k].response
            S == SelectedPositions(k)
        IN  /\ r.total_payout_cents = SumField(request.orders, S, "payout_cents")
            /\ r.total_weight_lbs = SumField(request.orders, S, "weight_lbs")
            /\ r.total_volume_cuft = SumField(request.orders, S, "volume_cuft")
            /\ S = {} => /\ r.total_payout_cents = 0
                         /\ r.total_weight_lbs = 0
                         /\ r.total_volume_cuft = 0

\* C11's case: a result of two orders out of three whose three totals are
\* three different numbers, with an unselected order that weighs something.
TotalsAreSumsWitness ==
    \E k \in Calls :
        LET r == returned[k].response
        IN  /\ Cardinality(SelectedPositions(k)) = 2
            /\ Len(request.orders) = 3
            /\ r.total_payout_cents # r.total_weight_lbs
            /\ r.total_weight_lbs # r.total_volume_cuft
            /\ r.total_payout_cents # r.total_volume_cuft

\* A utilisation is a whole number of hundredths of a percent; one percent is
\* 100 of them.
Percent(p) == p * 100

\* C12: in every result utilization_weight_percent and
\* utilization_volume_percent both lie between 0 and 100 percent, ends
\* included.
UtilizationInRange ==
    \A k \in Calls :
        LET r == returned[k].response
        IN  /\ r.utilization_weight_percent \in Percent(0)..Percent(100)
            /\ r.utilization_volume_percent \in Percent(0)..Percent(100)

\* C12's case: a result that fills the truck's weight to the last pound and
\* its volume only in part, while an order of the request stays behind.
UtilizationInRangeWitness ==
    \E k \in Calls :
        LET r == returned[k].response
        IN  /\ r.utilization_weight_percent = Percent(100)
            /\ r.utilization_volume_percent > Percent(0)
            /\ r.utilization_volume_percent < Percent(100)
            /\ SelectedPositions(k) # Positions

\* u is a whole number of hundredths of a percent nearest to
\* total / capacity * 100 percent: no further than half a hundredth from it.
NearestHundredth(u, total, capacity) ==
    LET d == u * capacity - total * 10000
    IN  /\ 2 * d <= capacity
        /\ 2 * (0 - d) <= capacity

\* C13: utilization_weight_percent is total_weight_lbs / truck.max_weight_lbs
\* * 100 rounded to two decimals, utilization_volume_percent the same with
\* the volumes, and each is 0 when its total is 0.
UtilizationIsRoundedRatio ==
    \A k \in Calls :
        LET r == returned[k].response
            t == request.truck
        IN  /\ NearestHundredth(r.utilization_weight_percent,
                                 r.total_weight_lbs, t.max_weight_lbs)
            /\ NearestHundredth(r.utilization_volume_percent,
                                 r.total_volume_cuft, t.max_volume_cuft)
            /\ r.total_weight_lbs = 0 => r.utilization_weight_percent = 0
            /\ r.total_volume_cuft = 0 => r.utilization_volume_percent = 0

\* C13's case: two thirds of the weight and one third of the volume are
\* used, so one quotient is rounded up (66.67) and the other down (33.33).
UtilizationIsRoundedRatioWitness ==
    \E k \in Calls :
        LET r == returned[k].response
        IN  /\ r.total_weight_lbs = 2
            /\ request.truck.max_weight_lbs = 3
            /\ r.utilization_weight_percent = 6667
            /\ r.total_volume_cuft = 1
            /\ request.truck.max_volume_cuft = 3
            /\ r.utilization_volume_percent = 3333

\* C19: optimize() reaches no error state: every call returns a response, and
\* the response meets every constraint of the response model (the three
\* totals at least 0, both utilisations from 0.0 to 100.0), so that building
\* it never fails.
OptimizeNeverRaises ==
    \A k \in Calls :
        LET r == returned[k].response
        IN  /\ returned[k].status = "returned"
            /\ r.total_payout_cents >= 0
            /\ r.total_weight_lbs >= 0
            /\ r.total_volume_cuft >= 0
            /\ r.utilization_weight_percent >= Percent(0)
            /\ r.utilization_weight_percent <= Percent(100)
            /\ r.utilization_volume_percent >= Percent(0)
            /\ r.utilization_volume_percent <= Percent(100)

\* C19's case: optimize() has returned a result that sits on the upper limit
\* of both utilisations, and the truck's two capacities differ.
OptimizeNeverRaisesWitness ==
    \E k \in Calls :
        LET r == returned[k].response
        IN  /\ returned[k].status = "returned"
            /\ optimizer # <<>>
            /\ r.utilization_weight_percent = Percent(100)
            /\ r.utilization_volume_percent = Percent(100)
            /\ request.truck.max_weight_lbs # request.truck.max_volume_cuft

\* The positions, in a list of n orders, of the orders a mask stands for:
\* bit i of the mask is the order at position i + 1.
MaskPositions(mask, n) == {p \in 1..n : (mask \div 2^(p - 1)) % 2 = 1}

\* The masks the loop of _bitmask_dp has evaluated that stand for a subset
\* within the truck's capacity and time-compatible.
FeasibleEvaluated ==
    {m \in {dp_evaluated[i] : i \in 1..Len(dp_evaluated)} :
        FeasibleSubset(dp_truck, dp_orders, MaskPositions(m, Len(dp_orders)))}

MaskPayout(m) == SumField(dp_orders, MaskPositions(m, Len(dp_orders)), "payout_cents")

\* The greatest payout among them, 0 when there is none.
TopEvaluated ==
    IF FeasibleEvaluated = {} THEN 0
    ELSE CHOOSE t \in {MaskPayout(m) : m \in FeasibleEvaluated} :
            \A m \in FeasibleEvaluated : MaskPayout(m) <= t

\* C14: among the feasible non-empty subsets of a filtered group that reach
\* the greatest, positive, payout, _bitmask_dp returns the one with the
\* smallest mask.  All along the loop the tracked best is the smallest of
\* the evaluated masks that reach the greatest payout so far, so a later
\* mask takes its place only by paying strictly more.
SmallestMaskWins ==
    /\ TopEvaluated > 0 =>
          /\ MaskPayout(dp_best.best_mask) = TopEvaluated
          /\ dp_best.best_mask \in FeasibleEvaluated
          /\ \A m \in FeasibleEvaluated :
                MaskPayout(m) = TopEvaluated => dp_best.best_mask <= m
    /\ dp_pc = "done" /\ TopEvaluated > 0 =>
          LET S == MaskPositions(dp_best.best_mask, Len(dp_orders))
          IN  /\ Len(dp_result.selected_orders) = Cardinality(S)
              /\ \A p \in S :
                    dp_result.selected_orders[Cardinality({q \in S : q <= p})]
                        = dp_orders[p]
              /\ dp_result.payout = TopEvaluated

\* C14's case: the search is over, two different feasible masks reach the
\* greatest payout, which is positive, the smaller of them is the tracked
\* best, and a feasible mask smaller than both pays less.
SmallestMaskWinsWitness ==
    /\ dp_pc = "done"
    /\ TopEvaluated > 0
    /\ \E m1, m2, m0 \in FeasibleEvaluated :
          /\ m0 < m1
          /\ m1 < m2
          /\ MaskPayout(m0) > 0
          /\ MaskPayout(m0) < TopEvaluated
          /\ MaskPayout(m1) = TopEvaluated
          /\ MaskPayout(m2) = TopEvaluated
          /\ dp_best.best_mask = m1

\* The positions of the orders that share the key of the order at p, and
\* the groups of the request: one set of positions for each key.
GroupOf(p) == {q \in Positions : SameLane(request.orders[q], request.orders[p])}

Groups == {GroupOf(p) : p \in Positions}

\* Where the key of a group first appears in the request.
FirstOf(G) == CHOOSE p \in G : \A q \in G : p <= q

\* The subsets of a group that the truck can carry together.
FeasibleIn(G) ==
    {S \in SUBSET G : FeasibleSubset(request.truck, request.orders, S)}

\* The greatest payout of a family of subsets, 0 when the family is empty.
TopOf(F) ==
    IF F = {} THEN 0
    ELSE CHOOSE t \in {Payout(S) : S \in F} : \A S \in F : Payout(S) <= t

\* The greatest payout of a group, 0 when nothing of it can be carried.
GroupTop(G) == TopOf(FeasibleIn(G))

\* The mask of a subset S of a group: bit i is the i-th order of the group
\* once the orders too large for the truck are filtered out.
RECURSIVE RankMask(_, _)
RankMask(S, G) ==
    IF S = {} THEN 0
    ELSE LET p == CHOOSE q \in S : TRUE
             before == {q \in G : q < p /\ ~Oversized(request.orders[q])}
         IN  2^Cardinality(before) + RankMask(S \ {p}, G)

\* The best subset of a group: nothing when no subset pays, otherwise the
\* subset that reaches the group's greatest payout with the smallest mask.
GroupBest(G) ==
    LET F == FeasibleIn(G)
        top == TopOf(F)
        reaching == {S \in F : Payout(S) = top}
    IN  IF top = 0 THEN {}
        ELSE CHOOSE S \in reaching :
                \A T \in reaching : RankMask(S, G) <= RankMask(T, G)

\* The group whose greatest payout is the greatest, the one whose key
\* appears first in the request among those that reach it.
WinningGroup ==
    LET top == [G \in Groups |-> GroupTop(G)]
    IN  CHOOSE G \in Groups :
            \A H \in Groups :
                \/ top[H] < top[G]
                \/ top[H] = top[G] /\ FirstOf(G) <= FirstOf(H)

\* C15: the result is the best subset of the group whose greatest payout is
\* the greatest over all groups; when several groups reach it, of the one
\* whose key appears first in the request.
FirstBestGroupWins ==
    Positions # {} /\ Calls # {} =>
        LET winner == WinningGroup
            best == GroupBest(winner)
            top == GroupTop(winner)
        IN  \A k \in Calls :
                /\ SelectedPositions(k) = best
                /\ returned[k].response.total_payout_cents = top

\* C15's case: two groups reach the same positive payout; the one that
\* appears first holds two orders, lying around the single order of the
\* other, and the result is those two orders.
FirstBestGroupWinsWitness ==
    \E k \in Calls : \E G, H \in Groups :
        /\ G # H
        /\ GroupTop(G) = GroupTop(H)
        /\ GroupTop(G) > 0
        /\ G = {1, 3}
        /\ H = {2}
        /\ SelectedPositions(k) = G

\* Where in the request the order with a given id stands.
PositionOfId(id) == CHOOSE p \in Positions : request.orders[p].id = id

\* C16: selected_order_ids lists the selected orders in the order of the
\* request: of two selected orders, the one that comes earlier in the
\* request comes earlier in selected_order_ids.
SelectedIdsInInputOrder ==
    \A k \in Calls :
        LET ids == returned[k].response.selected_order_ids
        IN  \A i, j \in 1..Len(ids) :
                i < j <=> PositionOfId(ids[i]) < PositionOfId(ids[j])

\* C16's case: the first and the third order of a request are selected and
\* the second, which lies between them, is not.
SelectedIdsInInputOrderWitness ==
    \E k \in Calls :
        /\ Len(returned[k].response.selected_order_ids) = 2
        /\ SelectedPositions(k) = {1, 3}

\* The places (group, place in the group) where the grouping put the order
\* at position p of the request.
PlacesOf(p) ==
    {gj \in {<<g, j>> : g \in 1..Len(group_list[1]), j \in 1..MaxGroupOrders} :
        /\ gj[2] <= Len(group_list[1][gj[1]].orders)
        /\ group_list[1][gj[1]].orders[gj[2]] = request.orders[p]}

\* C17: _group_compatible_orders partitions the orders of the request.
\* Every order is in exactly one group and the groups hold nothing else, no
\* group is empty, two orders are in the same group exactly when their
\* origin, destination and is_hazmat are all equal, there are as many
\* groups as distinct keys, and the orders of a group keep the order they
\* have in the request.
GroupingPartitions ==
    group_list # <<>> =>
        LET groups == group_list[1]
            place(p) == CHOOSE gj \in PlacesOf(p) : TRUE
        IN  /\ \A p \in Positions : Cardinality(PlacesOf(p)) = 1
            /\ \A g \in 1..Len(groups) :
                  /\ groups[g].orders # <<>>
                  /\ \A j \in 1..Len(groups[g].orders) :
                        \E p \in Positions : groups[g].orders[j] = request.orders[p]
            /\ \A p, q \in Positions :
                  place(p)[1] = place(q)[1]
                      <=> SameLane(request.orders[p], request.orders[q])
            /\ Len(groups) = Cardinality(Groups)
            /\ \A p, q \in Positions :
                  place(p)[1] = place(q)[1] =>
                      (p < q <=> place(p)[2] < place(q)[2])

\* C17's case: four orders with three keys, two of which differ in
\* is_hazmat alone; the first and the last order share a key and the two
\* between them do not.
GroupingPartitionsWitness ==
    /\ group_list # <<>>
    /\ Len(request.orders) = 4
    /\ Len(group_list[1]) = 3
    /\ SameLane(request.orders[1], request.orders[4])
    /\ request.orders[2].origin = request.orders[1].origin
    /\ request.orders[2].destination = request.orders[1].destination
    /\ request.orders[2].is_hazmat # request.orders[1].is_hazmat
    /\ Len(group_list[1][1].orders) = 2

\* C18: a request with more orders than max_orders_per_request is answered
\* with status 413 and optimize_load is never called for it; a request with
\* at most that many, the limit itself included, goes to optimize_load and
\* is answered with status 200.
OrderLimitEnforced ==
    /\ http_status = 0 => returned = <<>>
    /\ http_status # 0 =>
          IF Len(request.orders) > 25
          THEN /\ http_status = 413
               /\ returned = <<>>
          ELSE /\ http_status = 200
               /\ Len(returned) = 1
               /\ returned[1].response.truck_id = request.truck.id
               /\ SelectedIds(1) \subseteq {request.orders[p].id : p \in Positions}

\* C18's case: a request of exactly 25 orders has been answered with 200
\* and a result that selects some of them.
OrderLimitEnforcedWitness ==
    /\ Len(request.orders) = 25
    /\ http_status = 200
    /\ Len(returned) = 1
    /\ SelectedIds(1) # {}

\* All the orders of the request can ride together: one key, every payout
\* positive, the summed weight and volume within the truck's limits, and
\* max(pickup_date) <= min(delivery_date).
AllRideTogether ==
    /\ \A p, q \in Positions : SameLane(request.orders[p], request.orders[q])
    /\ \A p \in Positions : request.orders[p].payout_cents > 0
    /\ WithinCapacity(request.truck, request.orders, Positions)
    /\ TimeCompatible(request.orders, Positions)

\* C20: when all the orders of the request can ride together, every one of
\* them is selected and the total payout is the sum of all the payouts.
AllFitAllSelected ==
    AllRideTogether =>
        \A k \in Calls :
            /\ SelectedPositions(k) = Positions
            /\ Len(returned[k].response.selected_order_ids) = Len(request.orders)
            /\ returned[k].response.total_payout_cents = Payout(Positions)

\* C20's case: three orders that can ride together and take the whole
\* weight of the truck have been optimized; they pay different amounts and
\* leave at different dates.
AllFitAllSelectedWitness ==
    /\ AllRideTogether
    /\ Len(request.orders) = 3
    /\ Calls # {}
    /\ SumField(request.orders, Positions, "weight_lbs") = request.truck.max_weight_lbs
    /\ request.orders[1].payout_cents # request.orders[2].payout_cents
    /\ request.orders[1].pickup_date # request.orders[3].pickup_date

\* C21: for a filtered group of n orders the loop of _bitmask_dp evaluates
\* the masks 1, 2, ..., 2^n - 1 in that order, each once and mask 0 never:
\* at every moment the i-th mask evaluated is i.  The loop then ends, and
\* when it has ended 2^n - 1 masks have been evaluated, one for each
\* non-empty subset of the group.
MasksOnceInIncreasingOrder ==
    /\ [](\A i \in 1..Len(dp_evaluated) : dp_evaluated[i] = i)
    /\ [](Len(dp_evaluated) <= 2^Len(dp_orders) - 1)
    /\ [](dp_pc = "done" => Len(dp_evaluated) = 2^Len(dp_orders) - 1)
    /\ <>(dp_pc = "done")

\* C21's case: the search over a group of three orders is over and the last
\* mask evaluated was 7, the whole group.
MasksOnceInIncreasingOrderWitness ==
    /\ dp_pc = "done"
    /\ Len(dp_orders) = 3
    /\ Len(dp_evaluated) = 7
    /\ dp_evaluated[7] = 7

\* The ids of a list of orders.
IdsOf(orders) == [i \in 1..Len(orders) |-> orders[i].id]

\* C22: filtering is sound.  The subset search run on a group with nothing
\* filtered out returns the selected orders and the totals that optimize(),
\* which filters the group first, returns for the same group.
FilteringIsSound ==
    dp_pc = "done" =>
        \A k \in Calls :
            LET r == returned[k].response
            IN  /\ IdsOf(dp_result.selected_orders) = r.selected_order_ids
                /\ dp_result.payout = r.total_payout_cents
                /\ dp_result.weight = r.total_weight_lbs
                /\ dp_result.volume = r.total_volume_cuft

\* C22's case: the first order of a group of three is too heavy for the
\* truck and pays as much as any; of the other two the last pays more.  The
\* search over the whole group and optimize() have both selected the last.
FilteringIsSoundWitness ==
    /\ dp_pc = "done"
    /\ Calls # {}
    /\ Len(dp_orders) = 3
    /\ Oversized(dp_orders[1])
    /\ dp_orders[1].payout_cents >= dp_orders[3].payout_cents
    /\ dp_orders[3].payout_cents > dp_orders[2].payout_cents
    /\ IdsOf(dp_result.selected_orders) = <<3>>
    /\ returned[1].response.selected_order_ids = <<3>>

ZeroPayoutNeverSelected ==
    \A k \in Calls :
        /\ \A p \in SelectedPositions(k) : request.orders[p].payout_cents > 0
        /\ SelectedPositions(k) # {} <=> returned[k].response.total_payout_cents > 0
        /\ Len(returned[k].response.selected_order_ids) > 0
              <=> returned[k].response.total_payout_cents > 0

\* C24's case: an order that pays nothing could ride with the selected
\* order, same key, within the capacities and the dates, and is left out.
ZeroPayoutNeverSelectedWitness ==
    \E k \in Calls : \E p \in Positions :
        /\ request.orders[p].payout_cents = 0
        /\ SelectedPositions(k) # {}
        /\ p \notin SelectedPositions(k)
        /\ FeasibleSubset(request.truck, request.orders, SelectedPositions(k) \cup {p})

\* C25: one more order never lowers the optimum.  The first result is that
\* of optimize() on a list L, the second that of optimize() on L with one
\* more order under a fresh id, for the same truck; the total payout of the
\* second is at least that of the first.
OneMoreOrderNeverPaysLess ==
    Len(returned) = 2 =>
        /\ optimizer[1].truck = request.truck
        /\ Len(request.orders) = Len(optimizer[1].orders) + 1
        /\ \A p \in 1..Len(optimizer[1].orders) :
              /\ request.orders[p] = optimizer[1].orders[p]
              /\ request.orders[p].id # request.orders[Len(request.orders)].id
        /\ returned[2].response.total_payout_cents
              >= returned[1].response.total_payout_cents

\* C25's case: the list of two orders had one of them selected; the order
\* added shares the key of the two, and the longer list yields a selection
\* that pays more and holds the added order and not the one selected before.
OneMoreOrderNeverPaysLessWitness ==
    /\ Len(returned) = 2
    /\ Len(request.orders) = 3
    /\ Len(returned[1].response.selected_order_ids) = 1
    /\ returned[2].response.total_payout_cents > returned[1].response.total_payout_cents
    /\ 3 \in SelectedIds(2)
    /\ SelectedIds(1) \cap SelectedIds(2) = {}

\* C26: the optimum does not depend on the order of the orders.  The first
\* result is that of optimize() on a list, the second that of optimize()
\* on the same orders in another order, for the same truck; both have the
\* same total_payout_cents.
ReorderingKeepsPayout ==
    Len(returned) = 2 =>
        /\ optimizer[1].truck = request.truck
        /\ Len(request.orders) = Len(optimizer[1].orders)
        /\ \A p \in 1..Len(optimizer[1].orders) :
              Cardinality({q \in Positions : request.orders[q] = optimizer[1].orders[p]}) = 1
        /\ returned[2].response.total_payout_cents
              = returned[1].response.total_payout_cents

\* C26's case: three orders, reordered so that none keeps its place; two
\* subsets tie on the payout, and the two results pay the same with
\* different selections.
ReorderingKeepsPayoutWitness ==
    /\ Len(returned) = 2
    /\ Len(request.orders) = 3
    /\ \A p \in Positions : request.orders[p] # optimizer[1].orders[p]
    /\ returned[1].response.total_payout_cents > 0
    /\ SelectedIds(1) # SelectedIds(2)

====
